---- MODULE Spec2Model ----
(***************************************************************************)
(* Model of the two client-side stores of src/src/context/AuthContext.tsx: *)
(* the Cart Store (CartProvider) and the Session Store (AuthProvider).     *)
(*                                                                         *)
(* React's scheduling is modelled as follows.  A state setter called with  *)
(* an updater commits the new state in the render that follows the call;   *)
(* an effect (useEffect) whose dependency changed runs after that commit,  *)
(* as a step of its own, and before the next update is rendered.  Every    *)
(* await of a backend call is a point where the operation is suspended;    *)
(* the response is a later step.                                           *)
(***************************************************************************)
EXTENDS Integers, Sequences, FiniteSets, Bags, TLC

\* ------------------------------------------------------------------ bounds
MaxQty == 3
MaxInFlight == 2

\* ------------------------------------------------------------ value domains
\* The ids of the catalogue's products.
ProductIds == {1, 2, 3}

\* A Product of the catalogue, as passed to addToCart (id, name, price, image).
Product(p) ==
  [id |-> p, name |-> <<"name", p>>, price |-> 10 * p, image |-> <<"img", p>>]

\* The quantity argument of addToCart: given explicitly, or omitted.
AddArgs ==
  [given : {TRUE}, q : (0 - 1)..MaxQty] \cup [given : {FALSE}, q : {0}]

\* The quantity argument of updateQuantity.
UpdateArgs == (0 - 1)..MaxQty

NoSubject == <<"none", 0>>

\* The argument of toast(): title, what the description names, the number the
\* description states (0 when it states none), and the variant.
Toast(title, subject, qty, variant) ==
  [title |-> title, subject |-> subject, qty |-> qty, variant |-> variant]

VARIABLES
  items,          \* CartProvider: the items state (sequence of CartItem)
  storage,        \* localStorage, key 'cart': [has, text]
  effectPending,  \* the persist effect is scheduled and has not run yet
  notified,       \* the toasts raised by the latest step
  lastOp,         \* the latest step taken: operation, arguments, outcome
  added,          \* history: per product, what addToCart calls alone produced
  user,           \* AuthProvider: the user state
  isLoading,      \* AuthProvider: the isLoading state
  mounted,        \* AuthProvider: mounted and subscribed to session changes
  session,        \* backend auth session: the signed-in uid or NoUid
  ops,            \* bag of session operations suspended at an await
  signedOut       \* history: signOut succeeded / a null session was notified

cartVars == <<items, storage, effectPending, added>>
authVars == <<user, isLoading, mounted, session, ops, signedOut>>
vars == <<items, storage, effectPending, notified, lastOp, added,
          user, isLoading, mounted, session, ops, signedOut>>

\* The record kept of a step of the Cart Store.
CartOp(op, id, q) ==
  [op |-> op, id |-> id, q |-> q, stage |-> "call", outcome |-> "none",
   result |-> "void"]

\* The record kept of a step of the Session Store: the operation, the await it
\* resumed from, the backend's outcome and the operation's result ("pending"
\* while it is suspended again, "threw" when it rejected to its caller).
AuthOp(op, stage, outcome, result) ==
  [op |-> op, id |-> 0, q |-> 0, stage |-> stage, outcome |-> outcome,
   result |-> result]

\* ===================================================================== cart

\* prev.find(item => item.productId === id): index of the first match, 0 if none.
FindIndex(prev, id) ==
  IF \E k \in 1..Len(prev) : prev[k].productId = id
  THEN CHOOSE k \in 1..Len(prev) :
         /\ prev[k].productId = id
         /\ \A j \in 1..(k - 1) : prev[j].productId # id
  ELSE 0

\* JSON.stringify(items): each entry becomes the list of its field values.
JSONstringify(its) ==
  [k \in 1..Len(its) |->
     <<its[k].productId, its[k].title, its[k].price, its[k].imageUrl,
       its[k].quantity>>]

\* JSON.parse(saved): each list of field values becomes an entry again.
JSONparse(text) ==
  [k \in 1..Len(text) |->
     [productId |-> text[k][1], title |-> text[k][2], price |-> text[k][3],
      imageUrl |-> text[k][4], quantity |-> text[k][5]]]

NoStorage == [has |-> FALSE, text |-> <<>>]

\* A cart store that ignores the stored value and always starts empty.
InitialItemsAlwaysEmpty(saved) == <<>>

\* The useState initializer: saved ? JSON.parse(saved) : [].
InitialItems(saved) == IF saved.has THEN JSONparse(saved.text) ELSE <<>>

\* addToCart without the lookup of an existing entry: always appends.
addToCartAlwaysAppends(prev, product, quantity) ==
  [items |->
     Append(prev, [productId |-> product.id, title |-> product.name,
                   price |-> product.price, imageUrl |-> product.image,
                   quantity |-> quantity]),
   toasts |-> <<Toast("Added to Cart", product.name, 0, "default")>>]

\* addToCart that sets the existing entry's quantity instead of increasing it.
addToCartOverwrites(prev, product, quantity) ==
  LET i == FindIndex(prev, product.id) IN
  IF i # 0
  THEN [items |->
          [k \in 1..Len(prev) |->
             IF prev[k].productId = product.id
             THEN [prev[k] EXCEPT !.quantity = quantity]
             ELSE prev[k]],
        toasts |->
          <<Toast("Cart Updated", product.name, quantity, "default")>>]
  ELSE [items |->
          Append(prev, [productId |-> product.id, title |-> product.name,
                        price |-> product.price, imageUrl |-> product.image,
                        quantity |-> quantity]),
        toasts |-> <<Toast("Added to Cart", product.name, 0, "default")>>]

\* addToCart whose 'Cart Updated' toast states the quantity before the call.
addToCartToastsOldQuantity(prev, product, quantity) ==
  LET i == FindIndex(prev, product.id) IN
  IF i # 0
  THEN [items |->
          [k \in 1..Len(prev) |->
             IF prev[k].productId = product.id
             THEN [prev[k] EXCEPT !.quantity = @ + quantity]
             ELSE prev[k]],
        toasts |->
          <<Toast("Cart Updated", product.name, prev[i].quantity, "default")>>]
  ELSE [items |->
          Append(prev, [productId |-> product.id, title |-> product.name,
                        price |-> product.price, imageUrl |-> product.image,
                        quantity |-> quantity]),
        toasts |-> <<Toast("Added to Cart", product.name, 0, "default")>>]

\* The updater of addToCart with the default of its quantity parameter applied.
addToCart(prev, product, quantity) ==
  LET i == FindIndex(prev, product.id) IN
  IF i # 0
  THEN [items |->
          [k \in 1..Len(prev) |->
             IF prev[k].productId = product.id
             THEN [prev[k] EXCEPT !.quantity = @ + quantity]
             ELSE prev[k]],
        toasts |->
          <<Toast("Cart Updated", product.name, prev[i].quantity + quantity,
                  "default")>>]
  ELSE [items |->
          Append(prev, [productId |-> product.id, title |-> product.name,
                        price |-> product.price, imageUrl |-> product.image,
                        quantity |-> quantity]),
        toasts |-> <<Toast("Added to Cart", product.name, 0, "default")>>]

\* The default value of addToCart's quantity parameter (quantity: number = 1).
QuantityOf(arg) == IF arg.given THEN arg.q ELSE 1

KeepOthers(prev, productId) ==
  SelectSeq(prev, LAMBDA it : it.productId # productId)

\* removeFromCart that cuts the cart at the matching entry.
removeFromCartCutsAtMatch(prev, productId) ==
  LET i == FindIndex(prev, productId) IN
  [items |-> IF i # 0 THEN SubSeq(prev, 1, i - 1) ELSE prev,
   toasts |->
     IF i # 0
     THEN <<Toast("Removed from Cart", prev[i].title, 0, "destructive")>>
     ELSE <<>>]

\* The updater of removeFromCart.
removeFromCart(prev, productId) ==
  LET i == FindIndex(prev, productId) IN
  [items |-> KeepOthers(prev, productId),
   toasts |->
     IF i # 0
     THEN <<Toast("Removed from Cart", prev[i].title, 0, "destructive")>>
     ELSE <<>>]

\* updateQuantity that delegates to removeFromCart only below zero.
updateQuantityBelowZero(prev, productId, quantity) ==
  IF quantity < 0
  THEN removeFromCart(prev, productId)
  ELSE [items |->
          [k \in 1..Len(prev) |->
             IF prev[k].productId = productId
             THEN [prev[k] EXCEPT !.quantity = quantity]
             ELSE prev[k]],
        toasts |-> <<>>]

\* updateQuantity that puts the updated entry at the end of the cart.
updateQuantityMovesToEnd(prev, productId, quantity) ==
  LET i == FindIndex(prev, productId) IN
  IF quantity < 1
  THEN removeFromCart(prev, productId)
  ELSE [items |->
          IF i # 0
          THEN Append(KeepOthers(prev, productId),
                      [prev[i] EXCEPT !.quantity = quantity])
          ELSE prev,
        toasts |-> <<>>]

\* updateQuantity: delegates to removeFromCart below one, else maps in place.
updateQuantity(prev, productId, quantity) ==
  IF quantity < 1
  THEN removeFromCart(prev, productId)
  ELSE [items |->
          [k \in 1..Len(prev) |->
             IF prev[k].productId = productId
             THEN [prev[k] EXCEPT !.quantity = quantity]
             ELSE prev[k]],
        toasts |-> <<>>]

\* clearCart that raises no toast when the cart is already empty.
clearCartSilentWhenEmpty(prev) ==
  [items |-> <<>>,
   toasts |->
     IF prev = <<>> THEN <<>>
     ELSE <<Toast("Cart Cleared", NoSubject, 0, "default")>>]

\* clearCart: setItems([]) and one toast.
clearCart(prev) ==
  [items |-> <<>>,
   toasts |-> <<Toast("Cart Cleared", NoSubject, 0, "default")>>]

RECURSIVE ReduceQuantity(_, _)
\* items.reduce((sum, item) => sum + item.quantity, sum0)
ReduceQuantity(its, sum) ==
  IF its = <<>> THEN sum
  ELSE ReduceQuantity(Tail(its), sum + Head(its).quantity)

RECURSIVE ReducePrice(_, _)
\* items.reduce((sum, item) => sum + item.price * item.quantity, sum0)
ReducePrice(its, sum) ==
  IF its = <<>> THEN sum
  ELSE ReducePrice(Tail(its), sum + Head(its).price * Head(its).quantity)

\* totalItems that counts the entries instead of adding their quantities.
totalItemsCountsEntries == Len(items)

totalItems == ReduceQuantity(items, 0)

totalPrice == ReducePrice(items, 0)

\* The quantities the model lets an entry hold: from -1 to MaxQty.
InRange(its) ==
  \A k \in 1..Len(its) : its[k].quantity \in (0 - 1)..MaxQty

\* Commit of a state update of items.  React runs a pending effect before it
\* renders the next update, so the update is committed with no effect pending;
\* the new array always differs from the previous one (map, filter, spread and
\* [] all build a new array), so the persist effect is scheduled again.
Commit(r) ==
  /\ ~effectPending
  /\ InRange(r.items)
  /\ items' = r.items
  /\ notified' = r.toasts
  /\ effectPending' = TRUE
  /\ UNCHANGED storage

InCart(its, p) == FindIndex(its, p) # 0

NoAdds == [only |-> TRUE, sum |-> 0]

AddToCart(p, arg) ==
  /\ Commit(addToCart(items, Product(p), QuantityOf(arg)))
  /\ lastOp' = CartOp("addToCart", p, QuantityOf(arg))
  /\ added' = [added EXCEPT ![p] =
                 IF @.only THEN [only |-> TRUE, sum |-> @.sum + QuantityOf(arg)]
                 ELSE @]
  /\ UNCHANGED authVars

RemoveFromCart(p) ==
  /\ Commit(removeFromCart(items, p))
  /\ lastOp' = CartOp("removeFromCart", p, 0)
  /\ added' = [added EXCEPT ![p] = NoAdds]
  /\ UNCHANGED authVars

UpdateQuantity(p, q) ==
  /\ Commit(updateQuantity(items, p, q))
  /\ lastOp' = CartOp("updateQuantity", p, q)
  /\ added' = [added EXCEPT ![p] =
                 IF InCart(items', p) THEN [only |-> FALSE, sum |-> 0]
                 ELSE NoAdds]
  /\ UNCHANGED authVars

ClearCart ==
  /\ Commit(clearCart(items))
  /\ lastOp' = CartOp("clearCart", 0, 0)
  /\ added' = [p \in ProductIds |-> NoAdds]
  /\ UNCHANGED authVars

\* The persist effect with an empty dependency list: it writes the cart of the
\* mount and keeps what is stored afterwards.
PersistEffectOnMountOnly ==
  /\ effectPending
  /\ storage' = IF storage.has THEN storage
                ELSE [has |-> TRUE, text |-> JSONstringify(items)]
  /\ effectPending' = FALSE
  /\ notified' = <<>>
  /\ lastOp' = CartOp("persist", 0, 0)
  /\ UNCHANGED <<items, added>>
  /\ UNCHANGED authVars

\* useEffect(() => localStorage.setItem('cart', JSON.stringify(items)), [items])
PersistEffect ==
  /\ effectPending
  /\ storage' = [has |-> TRUE, text |-> JSONstringify(items)]
  /\ effectPending' = FALSE
  /\ notified' = <<>>
  /\ lastOp' = CartOp("persist", 0, 0)
  /\ UNCHANGED <<items, added>>
  /\ UNCHANGED authVars

CartInit ==
  /\ storage = NoStorage
  /\ items = InitialItems(storage)
  /\ effectPending = TRUE
  /\ added = [p \in ProductIds |-> NoAdds]

CartNext ==
  \/ \E p \in ProductIds, arg \in AddArgs : AddToCart(p, arg)
  \/ \E p \in ProductIds : RemoveFromCart(p)
  \/ \E p \in ProductIds, q \in UpdateArgs : UpdateQuantity(p, q)
  \/ ClearCart
  \/ PersistEffect

\* ================================================================== session

NoUid == "null"

\* The accounts of the backend.
Uids == {"u1", "u2"}

\* The user state when no one is signed in (null).
NullUser == [id |-> NoUid, name |-> NoUid, email |-> NoUid, avatar |-> NoUid]

\* session.data.session?.user?.email ?? "": the email of the session's user
\* (one value stands for every address), "" without a session.
EmailOf(s) == IF s = NoUid THEN "" ELSE "user@mail"

\* The row of the profiles table for uid: full_name is nullable, and null in
\* the row of "u2"; the avatar column is null.
ProfileRow(uid) ==
  [id |-> uid, full_name |-> IF uid = "u2" THEN NoUid ELSE "name",
   avatar |-> NoUid]

\* userObj built by fetchProfile from the row and the session's email.
UserObj(data, email) ==
  [id |-> data.id,
   name |-> IF data.full_name = NoUid THEN "" ELSE data.full_name,
   email |-> email,
   avatar |-> data.avatar]

\* A session operation suspended at an await: which operation, which await,
\* the uid it carries (credentials' account, then fetchProfile's argument) and
\* the email fetchProfile has read.
Op(kind, stage, uid, email) ==
  [kind |-> kind, stage |-> stage, uid |-> uid, email |-> email]

InFlight(op) == BagIn(op, ops)

Suspend(op) == ops (+) SetToBag({op})

Resume(op) == ops (-) SetToBag({op})

HasRoom == BagCardinality(ops) < MaxInFlight

\* What getSession() resolves to: the current session, or no session together
\* with an error object; the third outcome, "throw", is its rejection.
SessionRead(outcome) == IF outcome = "ok" THEN session ELSE NoUid

\* The operations' success toasts left out.
ContinuationToastsNone(kind) == <<>>

\* What follows `await fetchProfile(uid)` in the operation that awaited it.
ContinuationToasts(kind) ==
  CASE kind = "signIn" ->
         <<Toast("Signed in", NoSubject, 0, "default")>>
    [] kind = "signUp" ->
         <<Toast("Account created", NoSubject, 0, "default")>>
    [] OTHER -> <<>>

ContinuationResult(kind) ==
  IF kind \in {"signIn", "signUp"} THEN "true" ELSE "void"

ContinuationLoading(kind) ==
  IF kind \in {"signIn", "signUp", "startup"} THEN FALSE ELSE isLoading

\* fetchProfile that drops a profile which is not the current session's user.
FetchProfileEndsIfCurrent(kind, stage, outcome, value, rest) ==
  /\ user' = IF value = NullUser \/ value.id = session THEN value ELSE user
  /\ ops' = rest
  /\ notified' = ContinuationToasts(kind)
  /\ isLoading' = ContinuationLoading(kind)
  /\ lastOp' = AuthOp(kind, stage, outcome, ContinuationResult(kind))

\* fetchProfile ends by setUser(value); the operation that awaited it goes on
\* to its end in the same turn.  rest: the operations that stay suspended.
FetchProfileEnds(kind, stage, outcome, value, rest) ==
  /\ user' = value
  /\ ops' = rest
  /\ notified' = ContinuationToasts(kind)
  /\ isLoading' = ContinuationLoading(kind)
  /\ lastOp' = AuthOp(kind, stage, outcome, ContinuationResult(kind))

\* fetchProfile without its early return on a null uid.
FetchProfileNoNullCheck(kind, stage, outcome, uid, rest) ==
  /\ ops' = rest (+) SetToBag({Op(kind, "getSession", uid, "")})
  /\ lastOp' = AuthOp(kind, stage, outcome, "pending")
  /\ notified' = <<>>
  /\ UNCHANGED <<user, isLoading>>

\* fetchProfile(uid) called by an operation of this kind resuming from `stage`:
\* a null uid clears the user at once, otherwise the session read of line 32 is
\* awaited.
FetchProfile(kind, stage, outcome, uid, rest) ==
  IF uid = NoUid
  THEN FetchProfileEnds(kind, stage, outcome, NullUser, rest)
  ELSE /\ ops' = rest (+) SetToBag({Op(kind, "getSession", uid, "")})
       /\ lastOp' = AuthOp(kind, stage, outcome, "pending")
       /\ notified' = <<>>
       /\ UNCHANGED <<user, isLoading>>

\* The operation ends: its toast, its result, and setIsLoading(false) in finally.
Ends(op, outcome, result, toasts) ==
  /\ ops' = Resume(op)
  /\ notified' = toasts
  /\ isLoading' = FALSE
  /\ lastOp' = AuthOp(op.kind, op.stage, outcome, result)

\* The operation rejects out of an await that no try encloses.
Rejects(op, outcome) ==
  /\ ops' = Resume(op)
  /\ notified' = <<>>
  /\ lastOp' = AuthOp(op.kind, op.stage, outcome, "threw")
  /\ UNCHANGED <<user, isLoading>>

\* ---- history of the sign-out

\* No history is kept (the specifications that do not need it).
NoHistory == [kept |-> FALSE, out |-> FALSE, told |-> FALSE]

NotSignedOut == [kept |-> TRUE, out |-> FALSE, told |-> FALSE]

\* The history kept for the step just taken: out once a signOut has succeeded,
\* told once a null session has been notified to the store; both start again
\* with a call of signIn or signUp and whenever the backend holds a session.
TrackSignOut ==
  signedOut' =
    IF ~signedOut.kept
    THEN signedOut
    ELSE IF \/ session' # NoUid
            \/ (lastOp'.op \in {"signIn", "signUp"} /\ lastOp'.stage = "call")
    THEN NotSignedOut
    ELSE IF lastOp'.op = "signOut" /\ lastOp'.outcome = "ok"
    THEN [signedOut EXCEPT !.out = TRUE]
    ELSE IF lastOp'.op = "authChange" /\ lastOp'.stage = "call"
    THEN [signedOut EXCEPT !.told = TRUE]
    ELSE signedOut

\* ---- calls

\* setIsLoading(true), then the await of the operation's auth call.
Call(kind, u) ==
  /\ mounted /\ HasRoom
  /\ isLoading' = TRUE
  /\ ops' = Suspend(Op(kind, "auth", u, ""))
  /\ lastOp' = AuthOp(kind, "call", "none", "pending")
  /\ notified' = <<>>
  /\ UNCHANGED <<user, mounted, session>>
  /\ UNCHANGED cartVars
  /\ TrackSignOut

SignInCall(u) == Call("signIn", u)

SignUpCall(u) == Call("signUp", u)

SignOutCall == Call("signOut", NoUid)

SendPasswordResetCall == Call("sendPasswordReset", NoUid)

RefreshProfileCall ==
  /\ mounted /\ HasRoom
  /\ ops' = Suspend(Op("refreshProfile", "session", NoUid, ""))
  /\ lastOp' = AuthOp("refreshProfile", "call", "none", "pending")
  /\ notified' = <<>>
  /\ UNCHANGED <<user, isLoading, mounted, session>>
  /\ UNCHANGED cartVars
  /\ TrackSignOut

\* ---- responses of the backend

\* signIn that goes on to fetchProfile whatever signInWithPassword returned.
SignInResponseIgnoresError(op, outcome) ==
  /\ InFlight(op) /\ op.kind = "signIn" /\ op.stage = "auth"
  /\ session' = IF outcome = "ok" THEN op.uid ELSE session
  /\ FetchProfile("signIn", "auth", outcome, op.uid, Resume(op))
  /\ UNCHANGED mounted
  /\ UNCHANGED cartVars
  /\ TrackSignOut

\* signIn resumes from signInWithPassword.
SignInResponse(op, outcome) ==
  /\ InFlight(op) /\ op.kind = "signIn" /\ op.stage = "auth"
  /\ \/ /\ outcome = "error"
        /\ Ends(op, outcome, "false",
                <<Toast("Sign in failed", NoSubject, 0, "default")>>)
        /\ UNCHANGED <<user, session>>
     \/ /\ outcome = "ok"
        /\ session' = op.uid
        /\ FetchProfile("signIn", "auth", outcome, op.uid, Resume(op))
  /\ UNCHANGED mounted
  /\ UNCHANGED cartVars
  /\ TrackSignOut

\* signUp resumes from auth.signUp: error; a user with an active session; a
\* user that has to confirm the email first (no session); or no user object.
SignUpResponse(op, outcome) ==
  /\ InFlight(op) /\ op.kind = "signUp" /\ op.stage = "auth"
  /\ \/ /\ outcome = "error"
        /\ Ends(op, outcome, "false",
                <<Toast("Signup failed", NoSubject, 0, "default")>>)
        /\ UNCHANGED <<user, session>>
     \/ /\ outcome \in {"okActive", "okConfirm"}
        /\ session' = IF outcome = "okActive" THEN op.uid ELSE session
        /\ ops' = Resume(op) (+) SetToBag({Op("signUp", "upsert", op.uid, "")})
        /\ lastOp' = AuthOp("signUp", "auth", outcome, "pending")
        /\ notified' = <<>>
        /\ UNCHANGED <<user, isLoading>>
     \/ /\ outcome = "okNoUser"
        /\ Ends(op, outcome, "true",
                <<Toast("Account created", NoSubject, 0, "default")>>)
        /\ UNCHANGED <<user, session>>
  /\ UNCHANGED mounted
  /\ UNCHANGED cartVars
  /\ TrackSignOut

\* signUp without its catch: the error thrown by createOrUpdateProfile rejects.
UpsertResponseRejects(op, outcome) ==
  /\ InFlight(op) /\ op.kind = "signUp" /\ op.stage = "upsert"
  /\ \/ /\ outcome = "error"
        /\ Rejects(op, outcome)
     \/ /\ outcome = "ok"
        /\ FetchProfile("signUp", "upsert", outcome, op.uid, Resume(op))
  /\ UNCHANGED <<mounted, session>>
  /\ UNCHANGED cartVars
  /\ TrackSignOut

\* signUp resumes from createOrUpdateProfile (the upsert of the profile row).
UpsertResponse(op, outcome) ==
  /\ InFlight(op) /\ op.kind = "signUp" /\ op.stage = "upsert"
  /\ \/ /\ outcome = "error"
        /\ Ends(op, outcome, "false",
                <<Toast("Signup failed", NoSubject, 0, "default")>>)
        /\ UNCHANGED user
     \/ /\ outcome = "ok"
        /\ FetchProfile("signUp", "upsert", outcome, op.uid, Resume(op))
  /\ UNCHANGED <<mounted, session>>
  /\ UNCHANGED cartVars
  /\ TrackSignOut

\* signOut that also empties the cart when the backend sign-out succeeded.
SignOutResponseClearsCart(op, outcome) ==
  /\ InFlight(op) /\ op.kind = "signOut" /\ op.stage = "auth"
  /\ \/ /\ outcome = "error"
        /\ Ends(op, outcome, "void",
                <<Toast("Logout failed", NoSubject, 0, "default")>>)
        /\ UNCHANGED <<user, session>>
        /\ UNCHANGED cartVars
     \/ /\ outcome = "ok"
        /\ session' = NoUid
        /\ user' = NullUser
        /\ Ends(op, outcome, "void",
                <<Toast("Logged out", NoSubject, 0, "default")>>)
        /\ items' = <<>>
        /\ UNCHANGED <<storage, effectPending, added>>
  /\ UNCHANGED mounted
  /\ TrackSignOut

\* signOut that clears the user whatever auth.signOut returned.
SignOutResponseClearsAnyway(op, outcome) ==
  /\ InFlight(op) /\ op.kind = "signOut" /\ op.stage = "auth"
  /\ \/ /\ outcome = "error"
        /\ user' = NullUser
        /\ Ends(op, outcome, "void",
                <<Toast("Logout failed", NoSubject, 0, "default")>>)
        /\ UNCHANGED session
     \/ /\ outcome = "ok"
        /\ session' = NoUid
        /\ user' = NullUser
        /\ Ends(op, outcome, "void",
                <<Toast("Logged out", NoSubject, 0, "default")>>)
  /\ UNCHANGED mounted
  /\ UNCHANGED cartVars
  /\ TrackSignOut

\* signOut resumes from auth.signOut.
SignOutResponse(op, outcome) ==
  /\ InFlight(op) /\ op.kind = "signOut" /\ op.stage = "auth"
  /\ \/ /\ outcome = "error"
        /\ Ends(op, outcome, "void",
                <<Toast("Logout failed", NoSubject, 0, "default")>>)
        /\ UNCHANGED <<user, session>>
     \/ /\ outcome = "ok"
        /\ session' = NoUid
        /\ user' = NullUser
        /\ Ends(op, outcome, "void",
                <<Toast("Logged out", NoSubject, 0, "default")>>)
  /\ UNCHANGED mounted
  /\ UNCHANGED cartVars
  /\ TrackSignOut

\* sendPasswordReset resumes from resetPasswordForEmail.
PasswordResetResponse(op, outcome) ==
  /\ InFlight(op) /\ op.kind = "sendPasswordReset" /\ op.stage = "auth"
  /\ \/ /\ outcome = "error"
        /\ Ends(op, outcome, "false",
                <<Toast("Reset failed", NoSubject, 0, "default")>>)
     \/ /\ outcome = "ok"
        /\ Ends(op, outcome, "true",
                <<Toast("Password Reset", NoSubject, 0, "default")>>)
  /\ UNCHANGED <<user, mounted, session>>
  /\ UNCHANGED cartVars
  /\ TrackSignOut

\* refreshProfile resumes from its own getSession (line 174, outside any try):
\* a rejection of getSession rejects refreshProfile.
RefreshSessionResponse(op, outcome) ==
  /\ InFlight(op) /\ op.kind = "refreshProfile" /\ op.stage = "session"
  /\ IF outcome = "throw"
     THEN Rejects(op, outcome)
     ELSE FetchProfile("refreshProfile", "session", outcome,
                       SessionRead(outcome), Resume(op))
  /\ UNCHANGED <<mounted, session>>
  /\ UNCHANGED cartVars
  /\ TrackSignOut

\* The mount effect's async function resumes from getSession (line 183): a
\* rejection is an unhandled rejection and setIsLoading(false) is never reached;
\* after teardown fetchProfile is skipped.
StartupSessionResponse(op, outcome) ==
  /\ InFlight(op) /\ op.kind = "startup" /\ op.stage = "session"
  /\ IF outcome = "throw"
     THEN Rejects(op, outcome)
     ELSE IF mounted
     THEN FetchProfile("startup", "session", outcome, SessionRead(outcome),
                       Resume(op))
     ELSE /\ Ends(op, outcome, "void", <<>>)
          /\ UNCHANGED user
  /\ UNCHANGED <<mounted, session>>
  /\ UNCHANGED cartVars
  /\ TrackSignOut

\* fetchProfile resumes from getSession (line 32): a rejection is caught.
FetchSessionResponse(op, outcome) ==
  /\ InFlight(op) /\ op.stage = "getSession"
  /\ IF outcome = "throw"
     THEN FetchProfileEnds(op.kind, op.stage, outcome, NullUser, Resume(op))
     ELSE /\ ops' = Resume(op) (+)
                    SetToBag({Op(op.kind, "profile", op.uid,
                                 EmailOf(SessionRead(outcome)))})
          /\ lastOp' = AuthOp(op.kind, op.stage, outcome, "pending")
          /\ notified' = <<>>
          /\ UNCHANGED <<user, isLoading>>
  /\ UNCHANGED <<mounted, session>>
  /\ UNCHANGED cartVars
  /\ TrackSignOut

\* fetchProfile without the else branch that clears the user when no row came.
ProfileResponseKeepsUser(op, outcome) ==
  /\ InFlight(op) /\ op.stage = "profile"
  /\ \/ /\ outcome = "row"
        /\ FetchProfileEnds(op.kind, op.stage, outcome,
                            UserObj(ProfileRow(op.uid), op.email), Resume(op))
     \/ /\ outcome = "notFound"
        /\ FetchProfileEnds(op.kind, op.stage, outcome, user, Resume(op))
     \/ /\ outcome = "error"
        /\ FetchProfileEnds(op.kind, op.stage, outcome, NullUser, Resume(op))
  /\ UNCHANGED <<mounted, session>>
  /\ UNCHANGED cartVars
  /\ TrackSignOut

\* fetchProfile resumes from the profiles query (lines 35-39): a row, no row
\* (error code PGRST116, data null) or another error (thrown and caught).
ProfileResponse(op, outcome) ==
  /\ InFlight(op) /\ op.stage = "profile"
  /\ \/ /\ outcome = "row"
        /\ FetchProfileEnds(op.kind, op.stage, outcome,
                            UserObj(ProfileRow(op.uid), op.email), Resume(op))
     \/ /\ outcome \in {"notFound", "error"}
        /\ FetchProfileEnds(op.kind, op.stage, outcome, NullUser, Resume(op))
  /\ UNCHANGED <<mounted, session>>
  /\ UNCHANGED cartVars
  /\ TrackSignOut

\* ---- the backend's session-change notification and the teardown

\* The callback still subscribed after the teardown.
OnAuthStateChangeStillSubscribed(u) ==
  /\ session' = u
  /\ u # NoUid => HasRoom
  /\ FetchProfile("authChange", "call",
                  IF u = NoUid THEN "null" ELSE "uid", u, ops)
  /\ UNCHANGED mounted
  /\ UNCHANGED cartVars
  /\ TrackSignOut

\* The backend session becomes u (sign-in or sign-out in another tab, expiry,
\* token refresh when u is the current session) and notifies its subscribers;
\* the callback of line 189 calls fetchProfile(uid) without awaiting it.  After
\* the teardown the callback is unsubscribed.
OnAuthStateChange(u) ==
  /\ session' = u
  /\ IF mounted
     THEN /\ u # NoUid => HasRoom
          /\ FetchProfile("authChange", "call",
                          IF u = NoUid THEN "null" ELSE "uid", u, ops)
     ELSE /\ lastOp' = AuthOp("authChange", "unsubscribed", "none", "void")
          /\ notified' = <<>>
          /\ UNCHANGED <<user, isLoading, ops>>
  /\ UNCHANGED mounted
  /\ UNCHANGED cartVars
  /\ TrackSignOut

\* The cleanup of the mount effect: mounted = false and unsubscribe.
Teardown ==
  /\ mounted
  /\ mounted' = FALSE
  /\ lastOp' = AuthOp("teardown", "call", "none", "void")
  /\ notified' = <<>>
  /\ UNCHANGED <<user, isLoading, session, ops>>
  /\ UNCHANGED cartVars
  /\ TrackSignOut

\* After construction: user null, isLoading true, the mount effect has called
\* getSession and subscribed; the backend may hold a session of an earlier visit.
AuthInit ==
  /\ user = NullUser
  /\ isLoading = TRUE
  /\ mounted = TRUE
  /\ session \in Uids \cup {NoUid}
  /\ ops = SetToBag({Op("startup", "session", NoUid, "")})

SessionOutcomes == {"throw", "error", "ok"}

AuthNext ==
  \/ \E u \in Uids : SignInCall(u)
  \/ \E u \in Uids : SignUpCall(u)
  \/ SignOutCall
  \/ SendPasswordResetCall
  \/ RefreshProfileCall
  \/ \E op \in BagToSet(ops), o \in {"error", "ok"} : SignInResponse(op, o)
  \/ \E op \in BagToSet(ops),
        o \in {"error", "okActive", "okConfirm", "okNoUser"} :
          SignUpResponse(op, o)
  \/ \E op \in BagToSet(ops), o \in {"error", "ok"} : UpsertResponse(op, o)
  \/ \E op \in BagToSet(ops), o \in {"error", "ok"} : SignOutResponse(op, o)
  \/ \E op \in BagToSet(ops), o \in {"error", "ok"} :
          PasswordResetResponse(op, o)
  \/ \E op \in BagToSet(ops), o \in SessionOutcomes :
          RefreshSessionResponse(op, o)
  \/ \E op \in BagToSet(ops), o \in SessionOutcomes :
          StartupSessionResponse(op, o)
  \/ \E op \in BagToSet(ops), o \in SessionOutcomes :
          FetchSessionResponse(op, o)
  \/ \E op \in BagToSet(ops), o \in {"row", "notFound", "error"} :
          ProfileResponse(op, o)
  \/ \E u \in Uids \cup {NoUid} : OnAuthStateChange(u)

\* The Session Store over its whole life: it may be torn down at any moment.
AuthLifeNext == AuthNext \/ Teardown

\* The Session Store from its mount to after its teardown, with the operations
\* that establish and end a session: signIn, signOut, the startup sync and the
\* session-change notifications.
TeardownNext ==
  \/ \E u \in Uids : SignInCall(u)
  \/ SignOutCall
  \/ \E op \in BagToSet(ops), o \in {"error", "ok"} : SignInResponse(op, o)
  \/ \E op \in BagToSet(ops), o \in {"error", "ok"} : SignOutResponse(op, o)
  \/ \E op \in BagToSet(ops), o \in SessionOutcomes :
          StartupSessionResponse(op, o)
  \/ \E op \in BagToSet(ops), o \in SessionOutcomes :
          FetchSessionResponse(op, o)
  \/ \E op \in BagToSet(ops), o \in {"row", "notFound", "error"} :
          ProfileResponse(op, o)
  \/ \E u \in Uids \cup {NoUid} : OnAuthStateChange(u)
  \/ Teardown

\* ---- a new page over the same storage

\* The page is closed or reloaded and the application is constructed again:
\* both providers start from their initial state, the new cart store reading
\* what localStorage holds at that moment.  localStorage and the backend
\* session outlive the page; the operations in flight do not.  The record of
\* the step keeps whether the previous store's persist effect was still to run.
Reload ==
  /\ items' = InitialItems(storage)
  /\ effectPending' = TRUE
  /\ added' = [p \in ProductIds |->
                IF InCart(items', p) THEN [only |-> FALSE, sum |-> 0]
                ELSE NoAdds]
  /\ notified' = <<>>
  /\ lastOp' = [CartOp("reload", 0, 0) EXCEPT
                  !.stage = IF effectPending THEN "unsaved" ELSE "saved"]
  /\ user' = NullUser
  /\ isLoading' = TRUE
  /\ mounted' = TRUE
  /\ ops' = SetToBag({Op("startup", "session", NoUid, "")})
  /\ signedOut' = [signedOut EXCEPT !.out = FALSE, !.told = FALSE]
  /\ UNCHANGED <<storage, session>>

\* The Cart Store over several pages.
CartLifeNext == CartNext \/ Reload

\* ---- the two stores side by side

\* At most one session operation is suspended once the step is taken.
OneAtATime == BagCardinality(ops') <= 1

\* Both stores in one application: the cart operations on one product of the
\* catalogue, and the session operations one at a time.
JointNext ==
  \/ AddToCart(1, [given |-> FALSE, q |-> 0])
  \/ RemoveFromCart(1)
  \/ UpdateQuantity(1, 2)
  \/ ClearCart
  \/ PersistEffect
  \/ \E u \in Uids : SignInCall(u) /\ OneAtATime
  \/ \E u \in Uids : SignUpCall(u) /\ OneAtATime
  \/ SignOutCall /\ OneAtATime
  \/ SendPasswordResetCall /\ OneAtATime
  \/ RefreshProfileCall /\ OneAtATime
  \/ \E op \in BagToSet(ops), o \in {"error", "ok"} : SignInResponse(op, o)
  \/ \E op \in BagToSet(ops),
        o \in {"error", "okActive", "okConfirm", "okNoUser"} :
          SignUpResponse(op, o)
  \/ \E op \in BagToSet(ops), o \in {"error", "ok"} : UpsertResponse(op, o)
  \/ \E op \in BagToSet(ops), o \in {"error", "ok"} : SignOutResponse(op, o)
  \/ \E op \in BagToSet(ops), o \in {"error", "ok"} :
          PasswordResetResponse(op, o)
  \/ \E op \in BagToSet(ops), o \in SessionOutcomes :
          RefreshSessionResponse(op, o)
  \/ \E op \in BagToSet(ops), o \in SessionOutcomes :
          StartupSessionResponse(op, o)
  \/ \E op \in BagToSet(ops), o \in SessionOutcomes :
          FetchSessionResponse(op, o)
  \/ \E op \in BagToSet(ops), o \in {"row", "notFound", "error"} :
          ProfileResponse(op, o)
  \/ \E u \in Uids \cup {NoUid} : OnAuthStateChange(u) /\ OneAtATime

\* ============================================================ specifications

Init ==
  /\ CartInit
  /\ AuthInit
  /\ notified = <<>>
  /\ lastOp = CartOp("mount", 0, 0)
  /\ signedOut = NoHistory

\* The same states, with the history of the sign-out kept from here on.
SignOutInit ==
  /\ CartInit
  /\ AuthInit
  /\ notified = <<>>
  /\ lastOp = CartOp("mount", 0, 0)
  /\ signedOut = NotSignedOut

Next == CartLifeNext \/ AuthLifeNext

Spec == Init /\ [][Next]_vars

\* The Cart Store alone (the backend holds no session).
CartOnlyInit == Init /\ session = NoUid

CartSpec == CartOnlyInit /\ [][CartNext]_vars

\* The Cart Store alone, over several pages.
CartLifeSpec == CartOnlyInit /\ [][CartLifeNext]_vars

\* The two stores together.
JointSpec == Init /\ [][JointNext]_vars

\* The Session Store alone, while it is mounted.
AuthSpec == Init /\ [][AuthNext]_vars

\* The Session Store alone, with the history of the sign-out kept.
SignOutSpec == SignOutInit /\ [][AuthNext]_vars

\* The Session Store from mount to teardown, sessions established and ended.
TeardownSpec == Init /\ [][TeardownNext]_vars

\* The Session Store alone, teardown included.
AuthLifeSpec == Init /\ [][AuthLifeNext]_vars

\* ================================================================ properties

QuantityIn(its, p) == its[FindIndex(its, p)].quantity

\* C1: the cart holds at most one entry per product id, in every state reached
\* from the empty cart by addToCart, removeFromCart, updateQuantity, clearCart.
C1_OneEntryPerProduct ==
  \A i, j \in 1..Len(items) :
    items[i].productId = items[j].productId => i = j

\* C1 witness: addToCart of a product already in a cart of two entries.
C1_Witness ==
  /\ lastOp.op = "addToCart"
  /\ Len(items) = 2
  /\ notified # <<>> /\ notified[1].title = "Cart Updated"

\* C2: while an entry has been produced by addToCart calls alone, starting from
\* a cart without the product, its quantity is the sum of the quantities passed
\* (an omitted quantity counting as 1).
C2_QuantityIsSumOfAdds ==
  \A p \in ProductIds :
    (added[p].only /\ InCart(items, p)) => QuantityIn(items, p) = added[p].sum

\* C2 witness: product 1 added with quantity 1 and then with quantity 2 holds 3.
C2_Witness ==
  /\ lastOp = CartOp("addToCart", 1, 2)
  /\ added[1] = [only |-> TRUE, sum |-> 3]
  /\ InCart(items, 1) /\ QuantityIn(items, 1) = 3

\* C3: a step of updateQuantity(id, q) with q < 1 yields the cart and the
\* notifications removeFromCart(id) yields from the same cart, id present or not.
C3_UpdateBelowOneIsRemove ==
  [][(lastOp'.op = "updateQuantity" /\ lastOp'.q < 1) =>
       /\ items' = removeFromCart(items, lastOp'.id).items
       /\ notified' = removeFromCart(items, lastOp'.id).toasts]_vars

\* C3 witness: updateQuantity below one has removed an entry that was present.
C3_Witness ==
  /\ lastOp.op = "updateQuantity" /\ lastOp.q < 1
  /\ notified # <<>> /\ notified[1].title = "Removed from Cart"

\* What a cart store started on the stored value would hold.
Persisted == InitialItems(storage)

\* C4 as stated: in every state the persisted copy deserializes to the
\* in-memory cart, so that no state in which the two differ exists (stated for
\* the carts whose quantities are all positive).
C4_PersistedAlwaysEqual ==
  (\A k \in 1..Len(items) : items[k].quantity >= 1) => Persisted = items

\* C4 amended: once the persist effect scheduled by a mutation has run, the
\* persisted copy deserializes to the in-memory cart.
C4_PersistedOnceEffectRan == ~effectPending => Persisted = items

\* C4 witness: the persist effect has run on a cart of two entries.
C4_Witness ==
  /\ lastOp.op = "persist" /\ ~effectPending
  /\ Len(items) = 2 /\ storage.has /\ Len(storage.text) = 2

RECURSIVE SumOver(_, _)
\* The sum of f[k] over the indexes k in S.
SumOver(f, S) ==
  IF S = {} THEN 0
  ELSE LET k == CHOOSE x \in S : TRUE IN f[k] + SumOver(f, S \ {k})

\* C5: totalItems is the sum of the entries' quantities and totalPrice the sum
\* of price * quantity over the entries; both are 0 for the empty cart.
C5_TotalsAreSums ==
  /\ totalItems = SumOver([k \in DOMAIN items |-> items[k].quantity],
                          DOMAIN items)
  /\ totalPrice = SumOver([k \in DOMAIN items |->
                             items[k].price * items[k].quantity],
                          DOMAIN items)
  /\ items = <<>> => (totalItems = 0 /\ totalPrice = 0)

\* C5 witness: two entries of different quantities; the scenario's total of 30
\* for product 1 (price 10) with quantity 3 is reached too.
C5_Witness ==
  /\ Len(items) = 2 /\ items[1].quantity = 3 /\ items[2].quantity = 2
  /\ totalItems = 5
  /\ totalPrice = items[1].price * 3 + items[2].price * 2

\* C6: signIn with credentials the backend rejects returns false, leaves the
\* user as it was, raises exactly one notification, the failure one, and
\* starts no profile fetch (the operation is no longer suspended anywhere).
C6_RejectedSignIn ==
  [][(lastOp'.op = "signIn" /\ lastOp'.stage = "auth"
        /\ lastOp'.outcome = "error") =>
       /\ lastOp'.result = "false"
       /\ user' = user
       /\ Len(notified') = 1 /\ notified'[1].title = "Sign in failed"
       /\ ops' \sqsubseteq ops
       /\ BagCardinality(ops') = BagCardinality(ops) - 1]_vars

\* C6 witness: a signIn has just been rejected.
C6_Witness ==
  /\ lastOp = AuthOp("signIn", "auth", "error", "false")
  /\ notified # <<>> /\ notified[1].title = "Sign in failed"

\* C7: signIn with valid credentials whose profile read finds no row returns
\* true, raises the 'Signed in' notification and leaves the user null.
C7_SignInWithoutProfile ==
  [][(lastOp'.op = "signIn" /\ lastOp'.stage = "profile"
        /\ lastOp'.outcome = "notFound") =>
       /\ lastOp'.result = "true"
       /\ notified' = <<Toast("Signed in", NoSubject, 0, "default")>>
       /\ user' = NullUser]_vars

\* C7 witness: a signIn has just completed on a profile read that found no row.
C7_Witness ==
  /\ lastOp = AuthOp("signIn", "profile", "notFound", "true")
  /\ user = NullUser
  /\ session # NoUid

\* C8: a session-change notification with a null user identifier sets the user
\* to null in the step that handles it and suspends on no backend call.
C8_NullSessionClears ==
  [][(lastOp'.op = "authChange" /\ lastOp'.outcome = "null") =>
       /\ user' = NullUser
       /\ ops' = ops
       /\ lastOp'.result = "void"]_vars

\* C8 witness: a null session-change notification has just been handled.
C8_Witness ==
  /\ lastOp = AuthOp("authChange", "call", "null", "void")
  /\ user = NullUser /\ session = NoUid

\* C9: no session store operation lets a backend error escape to its caller:
\* no operation, the startup session read included, ends by rejecting.
C9_NoBackendErrorEscapes == lastOp.result # "threw"

\* C10 as stated: every step that changes the user raises a notification.
C10_EveryIdentityChangeNotified ==
  [][user' # user => notified' # <<>>]_vars

\* C10 amended: a step of signIn, signUp or signOut that changes the user raises
\* that operation's notification; a change of the user made by refreshProfile,
\* by the startup session read or by a session-change notification raises none.
C10_OwnOperationsNotify ==
  [][user' # user =>
       CASE lastOp'.op = "signIn" ->
              Len(notified') = 1 /\ notified'[1].title = "Signed in"
         [] lastOp'.op = "signUp" ->
              Len(notified') = 1 /\ notified'[1].title = "Account created"
         [] lastOp'.op = "signOut" ->
              Len(notified') = 1 /\ notified'[1].title = "Logged out"
         [] OTHER ->
              /\ lastOp'.op \in {"refreshProfile", "startup", "authChange"}
              /\ notified' = <<>>]_vars

\* C10 witness: a signIn has just set the user to a profile and notified.
C10_Witness ==
  /\ lastOp = AuthOp("signIn", "profile", "row", "true")
  /\ user # NullUser
  /\ notified # <<>> /\ notified[1].title = "Signed in"

\* The sequence s without its k-th element.
Without(s, k) == SubSeq(s, 1, k - 1) \o SubSeq(s, k + 1, Len(s))

\* C11: a step of removeFromCart(id) on a cart that holds id yields the cart
\* without that entry, every other entry unchanged and in the same order, and
\* raises exactly one notification, which names the removed item; on a cart
\* that does not hold id it leaves the cart as it is and raises no notification.
C11_RemoveFromCartFrame ==
  [][lastOp'.op = "removeFromCart" =>
       IF \E k \in 1..Len(items) : items[k].productId = lastOp'.id
       THEN \E k \in 1..Len(items) :
              /\ items[k].productId = lastOp'.id
              /\ items' = Without(items, k)
              /\ \A j \in 1..Len(items') : items'[j].productId # lastOp'.id
              /\ Len(notified') = 1
              /\ notified'[1].title = "Removed from Cart"
              /\ notified'[1].subject = items[k].title
       ELSE /\ items' = items
            /\ notified' = <<>>]_vars

\* C11 witness: removeFromCart(2) has taken the middle entry out of a cart of
\* three and named it; the entries of products 1 and 3 are left, in order.
C11_Witness ==
  /\ lastOp = CartOp("removeFromCart", 2, 0)
  /\ Len(items) = 2 /\ items[1].productId = 1 /\ items[2].productId = 3
  /\ Len(notified) = 1 /\ notified[1].subject = Product(2).name

\* C12: every entry of the cart has a quantity of at least one, in every state
\* reached by addToCart (with any integer quantity), updateQuantity,
\* removeFromCart and clearCart: no entry is kept with a quantity below one.
C12_QuantitiesAtLeastOne ==
  \A k \in 1..Len(items) : items[k].quantity >= 1

Raised(title) == \E k \in 1..Len(notified) : notified[k].title = title

\* C13: the step in which signOut resumes from the backend sign-out clears the
\* user and raises 'Logged out' when the backend succeeded; when it failed the
\* step keeps the user and raises 'Logout failed' only.  The call of signOut
\* itself keeps the user, and no other step raises 'Logged out'.
C13_SignOutOutcome ==
  [][/\ (lastOp'.op = "signOut" /\ lastOp'.stage = "auth"
           /\ lastOp'.outcome = "ok") =>
          /\ user' = NullUser
          /\ notified' = <<Toast("Logged out", NoSubject, 0, "default")>>
     /\ (lastOp'.op = "signOut" /\ lastOp'.stage = "auth"
           /\ lastOp'.outcome = "error") =>
          /\ user' = user
          /\ notified' = <<Toast("Logout failed", NoSubject, 0, "default")>>
     /\ (lastOp'.op = "signOut" /\ lastOp'.stage = "call") =>
          /\ user' = user
          /\ notified' = <<>>
     /\ (\E k \in 1..Len(notified') : notified'[k].title = "Logged out") =>
          /\ lastOp'.op = "signOut"
          /\ lastOp'.outcome = "ok"]_vars

\* C13 witness: the backend sign-out has failed while a user was signed in,
\* and the user is still there with 'Logout failed' raised.
C13_Witness ==
  /\ lastOp.op = "signOut" /\ lastOp.outcome = "error"
  /\ user # NullUser
  /\ Raised("Logout failed")

\* The operations of this kind that are suspended, each counted once per call.
CallsInFlight(kind) ==
  BagCardinality([op \in {o \in BagToSet(ops) : o.kind = kind} |->
                    CopiesIn(op, ops)])

\* C14, its last part: when auth.signUp has returned a user id without an
\* active session (the email is still to be confirmed), signUp does not go on
\* to load the profile.  Stated for the step that follows that response while
\* this signUp is the only one in flight: it is not the step in which signUp
\* resumes from the upsert and calls fetchProfile, which awaits the session and
\* profile reads that set the identity.
C14_NoLoadBeforeConfirmation ==
  [][(/\ lastOp.op = "signUp" /\ lastOp.stage = "auth"
      /\ lastOp.outcome = "okConfirm"
      /\ CallsInFlight("signUp") = 1) =>
       ~(/\ lastOp'.op = "signUp" /\ lastOp'.stage = "upsert"
         /\ lastOp'.outcome = "ok" /\ lastOp'.result = "pending"
         /\ \E op \in BagToSet(ops') :
              op.kind = "signUp" /\ op.stage = "getSession")]_vars

\* C15: an error of the profile read (the profiles query failing, or the
\* session read inside fetchProfile rejecting) is not propagated: the step
\* sets the user to null and the operation that awaited fetchProfile ends
\* normally, so signIn returns true with the user null; an error of the
\* profile write in signUp is caught by signUp, which returns false and raises
\* 'Signup failed'.
C15_ProfileErrorsStayInside ==
  /\ ((lastOp.stage = "profile" /\ lastOp.outcome = "error")
        \/ (lastOp.stage = "getSession" /\ lastOp.outcome = "throw")) =>
       /\ user = NullUser
       /\ lastOp.result # "threw"
       /\ lastOp.op = "signIn" => lastOp.result = "true"
  /\ (lastOp.op = "signUp" /\ lastOp.stage = "upsert"
        /\ lastOp.outcome = "error") =>
       /\ lastOp.result = "false"
       /\ Raised("Signup failed")

\* C15 witness: signIn with valid credentials (the backend session is the
\* account's) has returned true with the user null after the profiles query
\* failed.
C15_Witness ==
  /\ lastOp = AuthOp("signIn", "profile", "error", "true")
  /\ session \in Uids
  /\ user = NullUser
  /\ Raised("Signed in")

\* C16 as stated: a cart store started on storage that holds a value persisted
\* by the previous store starts with the previous store's final in-memory
\* cart; with the key absent it starts empty (stated for the final carts whose
\* quantities are all positive).
C16_ReloadRestoresFinalCart ==
  [][(lastOp'.op = "reload"
        /\ \A k \in 1..Len(items) : items[k].quantity >= 1) =>
       items' = IF storage.has THEN items ELSE <<>>]_vars

\* C16 amended: the new store starts with the previous store's final cart when
\* the stored value is the one the previous store's persist effect wrote after
\* its last mutation (no persist effect was still to run); in any case it
\* starts with what the stored value deserializes to, and empty without a key.
C16_ReloadRestoresPersistedCart ==
  [][lastOp'.op = "reload" =>
       /\ (storage.has /\ ~effectPending) => items' = items
       /\ storage.has => JSONstringify(items') = storage.text
       /\ ~storage.has => items' = <<>>]_vars

\* C16 witness: a store has started with the two entries, quantities
\* included, that the previous store held and had persisted.
C16_Witness ==
  /\ lastOp.op = "reload" /\ lastOp.stage = "saved"
  /\ Len(items) = 2
  /\ items[1].quantity = 2 /\ items[2].quantity = 1
  /\ storage.has /\ storage.text = JSONstringify(items)

SessionOps ==
  {"signIn", "signUp", "signOut", "sendPasswordReset", "refreshProfile",
   "authChange", "startup"}

CartOps == {"addToCart", "removeFromCart", "updateQuantity", "clearCart"}

\* C17: no step of a session operation (a call, a response, a session-change
\* notification) changes the cart, its persisted copy or whether the persist
\* effect is due, and no step of a cart operation, nor the persist effect,
\* changes the user, the loading flag, the backend session or the operations
\* in flight.
C17_StoresIndependent ==
  [][/\ lastOp'.op \in SessionOps =>
          UNCHANGED <<items, storage, effectPending>>
     /\ lastOp'.op \in CartOps \cup {"persist"} =>
          UNCHANGED <<user, isLoading, session, ops>>]_vars

\* C17 witness: signOut has succeeded over a cart that holds an entry and has
\* been persisted; the entry and the persisted copy are still there.
C17_Witness ==
  /\ lastOp.op = "signOut" /\ lastOp.outcome = "ok"
  /\ Raised("Logged out")
  /\ Len(items) = 1 /\ items[1].quantity = 2
  /\ storage.has /\ storage.text = JSONstringify(items)

\* C18: profile fetches in flight are neither cancelled nor coalesced.  A call
\* or a session-change notification leaves every suspended operation
\* suspended, and the step in which a fetch resumes from the profiles query
\* sets the user from that fetch alone (the profile of the uid it was called
\* with, or null), whatever the backend session is by then and whatever else
\* is in flight: the response that arrives last determines the identity.
C18_LastResponseWins ==
  [][/\ lastOp'.stage = "call" =>
          \A op \in BagToSet(ops) : CopiesIn(op, ops') >= CopiesIn(op, ops)
     /\ \A op \in BagToSet(ops) :
          (/\ op.stage = "profile" /\ lastOp'.stage = "profile"
           /\ lastOp'.op = op.kind /\ ops' = Resume(op)) =>
            user' = IF lastOp'.outcome = "row"
                    THEN UserObj(ProfileRow(op.uid), op.email)
                    ELSE NullUser]_vars

\* C18 witness: the profile read of a signIn has arrived after the session it
\* was started for was ended (a step that set the user to null); the user is
\* the profile of that superseded session's account while the backend holds
\* no session.
C18_Witness ==
  /\ lastOp = AuthOp("signIn", "profile", "row", "true")
  /\ session = NoUid
  /\ user.id \in Uids

\* C19: once signOut has succeeded and a null session has been notified, and
\* as long as no signIn or signUp is called and the backend holds no session,
\* the user is null: no profile fetch started earlier sets it again.
C19_SignedOutStaysNull ==
  (signedOut.out /\ signedOut.told) => user = NullUser

\* The operations that set the loading flag when they start.
LoadingOps == {"signIn", "signUp", "signOut", "sendPasswordReset", "startup"}

\* C20: the loading flag is true in every state in which a signIn, signUp,
\* signOut, sendPasswordReset or the startup session sync is suspended at an
\* await, also when several of them overlap and one has finished.
C20_LoadingWhileInFlight ==
  (\E op \in BagToSet(ops) : op.kind \in LoadingOps) => isLoading

\* C21: once every backend call has responded, so that no operation remains
\* in flight, the loading flag is false.  With nothing in flight no step of the
\* store is due (only a new call or a notification can follow), so a state
\* with nothing in flight and the flag true is one in which the flag stays
\* true for as long as no new operation is called, with no backend call
\* left unanswered.
C21_IdleMeansNotLoading == ops = EmptyBag => ~isLoading

\* C22: a step of updateQuantity(id, q) with q >= 1 keeps the number and the
\* order of the entries; the entry of id, at its position, gets quantity q and
\* keeps its other fields; every other entry is unchanged; on a cart without
\* id the cart is unchanged and no entry is created.
C22_UpdateQuantityInPlace ==
  [][(lastOp'.op = "updateQuantity" /\ lastOp'.q >= 1) =>
       /\ Len(items') = Len(items)
       /\ \A k \in 1..Len(items) :
            IF items[k].productId = lastOp'.id
            THEN /\ items'[k].quantity = lastOp'.q
                 /\ items'[k].productId = items[k].productId
                 /\ items'[k].title = items[k].title
                 /\ items'[k].price = items[k].price
                 /\ items'[k].imageUrl = items[k].imageUrl
            ELSE items'[k] = items[k]
       /\ (\A k \in 1..Len(items) : items[k].productId # lastOp'.id) =>
            items' = items]_vars

\* C22 witness: updateQuantity(2, 3) has set the middle entry of a cart of
\* three, which held another quantity, to 3.
C22_Witness ==
  /\ lastOp = CartOp("updateQuantity", 2, 3)
  /\ Len(items) = 3
  /\ items[1].productId = 1 /\ items[2].productId = 2 /\ items[3].productId = 3
  /\ items[2].quantity = 3
  /\ storage.has /\ Len(storage.text) = 3 /\ storage.text[2][5] = 1

\* C23: a step of addToCart on a product already in the cart keeps the number
\* and the order of the entries, changes only the quantity of that product's
\* entry, and raises one 'Cart Updated' notification that names the product
\* and states the quantity the entry holds after the step; on a product not in
\* the cart it appends the new entry after the entries already there, which
\* are unchanged, and raises one 'Added to Cart' notification naming it.
C23_AddToCartEffect ==
  [][lastOp'.op = "addToCart" =>
       IF \E k \in 1..Len(items) : items[k].productId = lastOp'.id
       THEN /\ Len(items') = Len(items)
            /\ \A k \in 1..Len(items) :
                 IF items[k].productId = lastOp'.id
                 THEN /\ items'[k].productId = items[k].productId
                      /\ items'[k].title = items[k].title
                      /\ items'[k].price = items[k].price
                      /\ items'[k].imageUrl = items[k].imageUrl
                      /\ items'[k].quantity = items[k].quantity + lastOp'.q
                      /\ Len(notified') = 1
                      /\ notified'[1].title = "Cart Updated"
                      /\ notified'[1].subject = Product(lastOp'.id).name
                      /\ notified'[1].qty = items'[k].quantity
                 ELSE items'[k] = items[k]
       ELSE /\ Len(items') = Len(items) + 1
            /\ \A k \in 1..Len(items) : items'[k] = items[k]
            /\ items'[Len(items')].productId = lastOp'.id
            /\ items'[Len(items')].title = Product(lastOp'.id).name
            /\ items'[Len(items')].price = Product(lastOp'.id).price
            /\ items'[Len(items')].imageUrl = Product(lastOp'.id).image
            /\ items'[Len(items')].quantity = lastOp'.q
            /\ Len(notified') = 1
            /\ notified'[1].title = "Added to Cart"
            /\ notified'[1].subject = Product(lastOp'.id).name]_vars

\* C23 witness: addToCart(product 1, 2) on a cart of two whose first entry is
\* product 1 with quantity 1: the entry is still first, holds 3, and the
\* notification states 3.
C23_Witness ==
  /\ lastOp = CartOp("addToCart", 1, 2)
  /\ Len(items) = 2 /\ items[1].productId = 1 /\ items[1].quantity = 3
  /\ Len(notified) = 1 /\ notified[1].title = "Cart Updated"
  /\ notified[1].qty = 3
  /\ storage.has /\ Len(storage.text) = 2 /\ storage.text[1][5] = 1

\* C24: after the teardown no session-change notification reaches the store:
\* a change of the backend session leaves the user, the loading flag and the
\* operations in flight as they are (a fetch that a notification started
\* before the teardown still runs to its end); and the step in which the
\* startup session read resolves after the teardown starts no profile fetch:
\* the startup sync ends there and the user is unchanged.
C24_TeardownUnsubscribes ==
  [][~mounted =>
       /\ (lastOp'.op = "authChange"
             /\ lastOp'.stage \in {"call", "unsubscribed"}) =>
            /\ lastOp'.stage = "unsubscribed"
            /\ UNCHANGED <<user, isLoading, ops>>
       /\ (lastOp'.op = "startup" /\ lastOp'.stage = "session") =>
            /\ user' = user
            /\ \A op \in BagToSet(ops') : op.kind # "startup"
            /\ \A op \in BagToSet(ops') : CopiesIn(op, ops') <= CopiesIn(op, ops)
     ]_vars

\* C24 witness: after the teardown the backend session has ended while a user
\* was signed in; the notification did not reach the store and the user is
\* still there.
C24_Witness ==
  /\ ~mounted
  /\ lastOp = AuthOp("authChange", "unsubscribed", "none", "void")
  /\ session = NoUid
  /\ user.id \in Uids

\* C25 as stated: in the state clearCart yields the cart is empty, both totals
\* are 0, the persisted copy deserializes to the empty collection and exactly
\* one notification has been raised (stated for the carts whose quantities
\* were all positive).
C25_ClearCartEmptiesAll ==
  (/\ lastOp.op = "clearCart"
   /\ \A k \in 1..Len(Persisted) : Persisted[k].quantity >= 1) =>
    /\ items = <<>>
    /\ totalItems = 0 /\ totalPrice = 0
    /\ Persisted = <<>>
    /\ Len(notified) = 1

\* C25 amended: a step of clearCart, from any cart, the empty one included,
\* yields the empty cart with both totals 0 and raises exactly one
\* notification, 'Cart Cleared'; the persisted copy deserializes to the empty
\* collection once the persist effect that clearCart scheduled has run.
C25_ClearCartThenPersist ==
  [][/\ lastOp'.op = "clearCart" =>
          /\ items' = <<>>
          /\ totalItems' = 0 /\ totalPrice' = 0
          /\ Len(notified') = 1 /\ notified'[1].title = "Cart Cleared"
          /\ effectPending'
     /\ (lastOp.op = "clearCart" /\ lastOp'.op = "persist") =>
          /\ Persisted' = <<>>
          /\ items' = <<>>]_vars

\* C25 witness: clearCart has emptied a cart of two entries (the persisted
\* copy still holds them) and raised its notification.
C25_Witness ==
  /\ lastOp.op = "clearCart"
  /\ items = <<>> /\ totalItems = 0 /\ totalPrice = 0
  /\ Len(notified) = 1 /\ notified[1].title = "Cart Cleared"
  /\ storage.has /\ Len(storage.text) = 2

====
